---- MODULE Spec2Model ----
(***************************************************************************)
(* Incremental climate-data harvester: the Row Reconciler                  *)
(* (remove_duplicates, remove_duplicate_dates), the Month Fetcher          *)
(* (fetch_daily_csv, fetch_daily_data), the Station Updater (main of       *)
(* fetch_and_update_data.py, update_csv_file of scripts/) and the Batch    *)
(* Driver, as state machines over small calendars and small tables.        *)
(*                                                                         *)
(* "inventory updater"  = src/fetch_and_update_data.py        (variant A)  *)
(* "file-scan updater"  = src/scripts/fetch_and_update_data.py (variant B) *)
(***************************************************************************)
EXTENDS Integers, Sequences, FiniteSets

VARIABLES
    df_in,      \* reconciler run: the working set handed to the reconciler
    df_out,     \* reconciler run: its output
    df_out2,    \* reconciler run: the output of a second pass over df_out
    rfn,        \* reconciler run: which function ran ("A", "B", "S")
    rpc,        \* reconciler run: "in", "once", "twice"
    variant,    \* station update: "A" inventory updater, "B" file-scan updater
    now,        \* datetime.now() as <<year, month, day>>
    file,       \* the station's persisted dataset: [exists, rows]
    first_year, \* inventory row: DLY First Year
    last_year,  \* inventory row: DLY Last Year
    remote,     \* what the remote endpoint serves for a month
    pc,         \* "idle", "fetch", "done" ("off": no station update is modelled)
    existing,   \* the dataset read at the start of the update: [some, rows]
    months,     \* the (year, month) pairs the updater decided to fetch
    mi,         \* position in months
    inner,      \* file-scan updater: fetch_daily_data's loop variable month
    all_new,    \* rows accumulated from the fetches
    requests,   \* the (year, month) parameters of the requests sent, in order
    last,       \* the last request: its response and what was printed for it
    faults,     \* transient failures met so far
    failed,     \* the requests of this update that failed in transit or by status
    result,     \* what the update reported
    wrote,      \* whether this update rewrote the file
    runs,       \* updates started so far
    stations,   \* batch: what goes wrong for each station of the working set
    bi,         \* batch, inventory updater: position of the for loop
    tasks,      \* batch, file-scan updater: state of each submitted task
    visited,    \* batch: the stations whose update was started
    reported,   \* batch: the stations whose exception was caught and printed
    crashed     \* batch: an exception has left main

reconVars == <<df_in, df_out, df_out2, rfn, rpc>>

updVars == <<variant, now, file, first_year, last_year, remote, pc, existing, months,
             mi, inner, all_new, requests, last, faults, failed, result, wrote, runs>>

batchVars == <<stations, bi, tasks, visited, reported, crashed>>

vars == <<reconVars, updVars, batchVars>>

----------------------------------------------------------------------------
(* Bounds of the model *)

\* first calendar year of the modelled window
BaseYear == 2023
\* most rows in a table drawn as an input
MaxRows == 3
\* most transient fetch failures over the updates of one station
MaxFaults == 1
\* most updates of one station in a row
MaxRuns == 2
\* most rows in a persisted file at the start
MaxFileRows == 1
\* most rows the remote serves for one month
MaxServed == 1
\* most stations in the working set of one batch
MaxStations == 2

----------------------------------------------------------------------------
(* Calendar: datetime / timedelta arithmetic on <<year, month, day>> *)

NaT == <<0, 0, 0>>

IsLeap(y) == (y % 4 = 0 /\ y % 100 # 0) \/ y % 400 = 0

DaysInMonth(y, m) ==
    IF m = 2 THEN (IF IsLeap(y) THEN 29 ELSE 28)
    ELSE IF m \in {4, 6, 9, 11} THEN 30 ELSE 31

DateLT(a, b) ==
    \/ a[1] < b[1]
    \/ a[1] = b[1] /\ a[2] < b[2]
    \/ a[1] = b[1] /\ a[2] = b[2] /\ a[3] < b[3]

DateLE(a, b) == a = b \/ DateLT(a, b)

\* d + timedelta(days=1)
NextDay(d) ==
    IF d[3] < DaysInMonth(d[1], d[2]) THEN <<d[1], d[2], d[3] + 1>>
    ELSE IF d[2] < 12 THEN <<d[1], d[2] + 1, 1>>
    ELSE <<d[1] + 1, 1, 1>>

\* d - Timedelta(days=1)
PrevDay(d) ==
    IF d[3] > 1 THEN <<d[1], d[2], d[3] - 1>>
    ELSE IF d[2] > 1 THEN <<d[1], d[2] - 1, DaysInMonth(d[1], d[2] - 1)>>
    ELSE <<d[1] - 1, 12, 31>>

----------------------------------------------------------------------------
(* Tables: a row is [date: text of the Date/Time cell, vals: the            *)
(* measurement cells].  Two of the eight measurement columns are carried.   *)

WEATHER_COLUMNS == {"Max Temp", "Total Precip"}

\* a cell is missing ("NaN") or holds a reading
CellValues == {"NaN", "v"}

\* Text of a Date/Time cell: fmt "iso" is YYYY-MM-DD, "long" is
\* YYYY-MM-DD 00:00:00, "NaN" is an empty cell.
DateText(day, fmt) == [fmt |-> fmt, day |-> day]
NaNText == [fmt |-> "NaN", day |-> NaT]

\* pd.to_datetime(text): the calendar day, NaT for an empty cell
to_datetime(t) == IF t.fmt = "NaN" THEN NaT ELSE t.day

\* .dt.strftime('%Y-%m-%d'): NaT formats to a missing cell
strftime(d) == IF d = NaT THEN NaNText ELSE DateText(d, "iso")

\* string order of two Date/Time cells, missing cells last (sort_values)
TextLT(a, b) ==
    IF a.fmt = "NaN" THEN FALSE
    ELSE IF b.fmt = "NaN" THEN TRUE
    ELSE \/ DateLT(a.day, b.day)
         \/ a.day = b.day /\ a.fmt = "iso" /\ b.fmt = "long"

Row(t, v) == [date |-> t, vals |-> v]

\* df[cols].notna().sum(axis=1)
non_null_score(r) == Cardinality({c \in WEATHER_COLUMNS : r.vals[c] # "NaN"})

Range(s) == {s[i] : i \in 1..Len(s)}

RECURSIVE SeqsUpTo(_, _)
SeqsUpTo(S, n) ==
    IF n = 0 THEN {<<>>}
    ELSE LET shorter == SeqsUpTo(S, n - 1)
         IN  shorter \cup {Append(s, x) : s \in {t \in shorter : Len(t) = n - 1}, x \in S}

RECURSIVE Filter(_, _, _)
\* the rows of s at the positions in keep, in order (positions counted from i)
Filter(s, keep, i) ==
    IF s = <<>> THEN <<>>
    ELSE (IF i \in keep THEN <<Head(s)>> ELSE <<>>) \o Filter(Tail(s), keep, i + 1)

----------------------------------------------------------------------------
(* Row Reconciler, inventory updater: remove_duplicates *)

\* variation: ascending=[True, True]
SortKeyBefore_ascending(a, b) ==
    \/ TextLT(a.date, b.date)
    \/ a.date = b.date /\ non_null_score(a) < non_null_score(b)

\* sort_values(["Date/Time", "non_null_score"], ascending=[True, False])
SortKeyBefore(a, b) ==
    \/ TextLT(a.date, b.date)
    \/ a.date = b.date /\ non_null_score(a) > non_null_score(b)

RECURSIVE InsertSorted(_, _)
InsertSorted(r, s) ==
    IF s = <<>> THEN <<r>>
    ELSE IF SortKeyBefore(r, Head(s)) THEN <<r>> \o s
    ELSE <<Head(s)>> \o InsertSorted(r, Tail(s))

RECURSIVE sort_values(_)
\* the multi-key sort is a stable lexsort
sort_values(df) ==
    IF df = <<>> THEN <<>>
    ELSE InsertSorted(df[Len(df)], sort_values(SubSeq(df, 1, Len(df) - 1)))

\* variation: the duplicated mask is not negated, the repeats are what is kept
drop_duplicates_inverted(df) ==
    Filter(df, {i \in 1..Len(df) : \E j \in 1..(i - 1) : df[j].date = df[i].date}, 1)

\* variation: keep=False, every row whose Date/Time occurs more than once goes
drop_duplicates_keep_false(df) ==
    Filter(df, {i \in 1..Len(df) : \A j \in 1..Len(df) : j # i => df[j].date # df[i].date}, 1)

\* drop_duplicates(subset=["Date/Time"], keep='first'): compares the cell text
drop_duplicates(df) ==
    Filter(df, {i \in 1..Len(df) : \A j \in 1..(i - 1) : df[j].date # df[i].date}, 1)

remove_duplicates(df) ==
    IF df = <<>> THEN df ELSE drop_duplicates(sort_values(df))

----------------------------------------------------------------------------
(* Row Reconciler, file-scan updater: remove_duplicate_dates *)

\* the keys of df.groupby('Date/Time'): NaT keys are dropped
GroupKeys(df) == {to_datetime(r.date) : r \in Range(df)} \ {NaT}

RECURSIVE SortedDates(_)
SortedDates(S) ==
    IF S = {} THEN <<>>
    ELSE LET least == CHOOSE d \in S : \A e \in S : DateLE(d, e)
         IN  <<least>> \o SortedDates(S \ {least})

\* x.notnull().sum(axis=1).idxmax() over one date's group: a row of the highest
\* score.  sort_values(by=['Date/Time']) is numpy's quicksort, which is not
\* stable, so any row of the highest score can come first in its group.
idxmax(df, d) ==
    LET group == {r \in Range(df) : to_datetime(r.date) = d}
    IN  {r \in group : \A q \in group : non_null_score(q) <= non_null_score(r)}

RECURSIVE PickPerDate(_, _)
\* df.loc[...]: one picked row per group key, keys ascending; to_csv writes the
\* parsed midnight datetimes as YYYY-MM-DD
PickPerDate(df, ds) ==
    IF ds = <<>> THEN {<<>>}
    ELSE {<<Row(strftime(Head(ds)), r.vals)>> \o rest :
            r \in idxmax(df, Head(ds)), rest \in PickPerDate(df, Tail(ds))}

\* the files remove_duplicate_dates can leave behind for the file content df
remove_duplicate_dates(df) == PickPerDate(df, SortedDates(GroupKeys(df)))

\* remove_duplicate_dates.py: the same steps, columns passed as a parameter
remove_duplicate_dates_single_file(df) == PickPerDate(df, SortedDates(GroupKeys(df)))

----------------------------------------------------------------------------
(* The remote endpoint.  It serves the same shape for every month: an empty *)
(* body, a table without a Date/Time column, or a table whose rows are      *)
(* placed relative to the requested month.  A request can also fail in      *)
(* transit ("neterr") or come back with an HTTP error status ("http").      *)

\* the day a served row is about: the first day of the requested month, the
\* first day of the following month of the same Year, or an empty date cell
DayAt(pos, y, m) ==
    IF pos = "first" THEN <<y, m, 1>>
    ELSE IF pos = "next" THEN <<y, (IF m < 12 THEN m + 1 ELSE 1), 1>>
    ELSE NaT

ServedRow(cell, fmt, y, m) ==
    Row((IF cell.pos = "blank" THEN NaNText ELSE DateText(DayAt(cell.pos, y, m), fmt)),
        cell.vals)

\* the response to GET ?stationID=..&Year=y&Month=m&timeframe=2 when the request succeeds
Serve(y, m) ==
    [kind |-> remote.kind,
     rows |-> [i \in 1..Len(remote.cells) |-> ServedRow(remote.cells[i], remote.fmt, y, m)]]

Failure(kind) == [kind |-> kind, rows |-> <<>>]

\* dropna(subset=["Date/Time"])
dropna_date(df) == SelectSeq(df, LAMBDA r : r.date.fmt # "NaN")

\* dropna(how="all", subset=WEATHER_COLUMNS)
dropna_all(df) == SelectSeq(df, LAMBDA r : non_null_score(r) > 0)

\* variation: the Date/Time column is kept as the remote wrote it
format_dates_as_served(df) == df

\* pd.to_datetime(...).dt.strftime('%Y-%m-%d') over the Date/Time column
format_dates(df) == [i \in 1..Len(df) |-> Row(strftime(to_datetime(df[i].date)), df[i].vals)]

----------------------------------------------------------------------------
(* Month Fetcher, inventory updater: fetch_daily_csv *)

\* the requests one call sends: requests.get(BASE_URL, params) once
fetch_daily_csv_requests(year, month) == << <<year, month>> >>

\* what the call does with the response: raise, or return a table
fetch_daily_csv(resp) ==
    IF resp.kind \in {"neterr", "http"} THEN [raised |-> TRUE, df |-> <<>>]
    ELSE IF resp.kind = "empty" THEN [raised |-> FALSE, df |-> <<>>]
    ELSE IF resp.kind = "nodate" THEN [raised |-> TRUE, df |-> <<>>]
    ELSE [raised |-> FALSE, df |-> dropna_date(format_dates(resp.rows))]

\* main, the loop body around the call: what it prints for the month
PrintedA(got) ==
    IF got.raised THEN "FAIL" ELSE IF got.df = <<>> THEN "NoData" ELSE "OK"

----------------------------------------------------------------------------
(* Month Fetcher, file-scan updater: fetch_daily_data *)

\* for month in range(1, 12): break once past the current month of this year
LoopEnds(year, month) == month > 11 \/ (year = now[1] /\ month > now[2])

\* one pass of the loop body for loop variable month: the rows it adds to
\* all_daily_data and whether the except branch printed an error
fetch_daily_data(year, month, resp) ==
    IF resp.kind = "neterr" THEN [printed |-> "Error", rows |-> <<>>]
    ELSE IF resp.kind \in {"http", "empty"} THEN [printed |-> "none", rows |-> <<>>]
    ELSE IF resp.kind = "nodate" THEN [printed |-> "Error", rows |-> <<>>]
    ELSE [printed |-> "none",
          rows |-> format_dates(SelectSeq(resp.rows,
                      LAMBDA r : /\ to_datetime(r.date)[2] = month
                                 /\ to_datetime(r.date)[1] = year))]

----------------------------------------------------------------------------
(* Station Updater, inventory updater: main, one inventory row *)

MaxDate(df) ==
    LET ds == {to_datetime(r.date) : r \in Range(df)} \ {NaT}
    IN  IF ds = {} THEN NaT ELSE CHOOSE d \in ds : \A e \in ds : DateLE(e, d)

RECURSIVE MonthRun(_, _, _)
\* <<year, a>>, <<year, a + 1>>, ..., <<year, b>>
MonthRun(year, a, b) ==
    IF a > b THEN <<>> ELSE << <<year, a>> >> \o MonthRun(year, a + 1, b)

RECURSIVE YearLoop_full_years(_, _, _, _)
\* variation: m_end is 12 in the current year too
YearLoop_full_years(year, from_year, from_month, last_fetch_year) ==
    IF year > last_fetch_year THEN <<>>
    ELSE MonthRun(year, (IF year = from_year THEN from_month ELSE 1), 12)
         \o YearLoop_full_years(year + 1, from_year, from_month, last_fetch_year)

RECURSIVE YearLoop(_, _, _, _)
\* for year in range(from_year, last_fetch_year + 1): for month in range(m_start, m_end + 1)
YearLoop(year, from_year, from_month, last_fetch_year) ==
    IF year > last_fetch_year THEN <<>>
    ELSE MonthRun(year,
                  (IF year = from_year THEN from_month ELSE 1),
                  (IF year = now[1] THEN now[2] ELSE 12))
         \o YearLoop(year + 1, from_year, from_month, last_fetch_year)

Min(a, b) == IF a < b THEN a ELSE b

\* whether the file read gives an existing dataset with a latest date
HasLastDate(f) == f.exists /\ f.rows # <<>> /\ MaxDate(f.rows) # NaT

\* the months main fetches for an inventory row and a persisted file
MonthsA(f, fy, ly) ==
    LET next_day == NextDay(MaxDate(f.rows))
        from_year == IF HasLastDate(f) THEN next_day[1] ELSE fy
        from_month == IF HasLastDate(f) THEN next_day[2] ELSE 1
    IN  YearLoop(from_year, from_year, from_month, Min(ly, now[1]))

NoLast == [req |-> <<0, 0>>, call |-> <<0, 0>>, kind |-> "none", printed |-> "none",
           named |-> <<0, 0>>, rows |-> <<>>]

StartA ==
    /\ pc = "idle"
    /\ variant = "A"
    /\ runs' = runs + 1
    /\ IF first_year > last_year
       THEN /\ pc' = "done"
            /\ result' = "skipped"
            /\ UNCHANGED <<existing, months>>
       ELSE /\ pc' = "fetch"
            /\ existing' = [some |-> HasLastDate(file),
                            rows |-> IF HasLastDate(file) THEN file.rows ELSE <<>>]
            /\ months' = MonthsA(file, first_year, last_year)
            /\ UNCHANGED result
    /\ mi' = 1
    /\ UNCHANGED <<reconVars, batchVars, variant, now, file, first_year, last_year, remote, inner, all_new,
                   requests, last, faults, failed, wrote>>

\* one turn of the month loop: the request, the response, the printed outcome
FetchA ==
    /\ pc = "fetch"
    /\ variant = "A"
    /\ mi <= Len(months)
    /\ \E resp \in {Serve(months[mi][1], months[mi][2])}
                   \cup {Failure(k) : k \in IF faults < MaxFaults THEN {"neterr", "http"} ELSE {}} :
          LET got == fetch_daily_csv(resp)
          IN  /\ requests' = requests \o fetch_daily_csv_requests(months[mi][1], months[mi][2])
              /\ all_new' = all_new \o got.df
              \* print(f"  Fetching {year}-{month:02d}: ") comes before every outcome
              /\ last' = [req |-> months[mi], call |-> months[mi], kind |-> resp.kind,
                          printed |-> PrintedA(got), named |-> months[mi], rows |-> got.df]
              /\ faults' = IF resp.kind \in {"neterr", "http"} THEN faults + 1 ELSE faults
              /\ failed' = IF resp.kind \in {"neterr", "http"}
                           THEN Append(failed, months[mi]) ELSE failed
    /\ mi' = mi + 1
    /\ UNCHANGED <<reconVars, batchVars, variant, now, file, first_year, last_year, remote, pc, existing, months,
                   inner, result, wrote, runs>>

\* after the loops: merge, reconcile and persist, or leave the file alone
PersistA ==
    /\ pc = "fetch"
    /\ variant = "A"
    /\ mi > Len(months)
    /\ IF all_new # <<>>
       THEN LET fetched == dropna_all(all_new)
                combined == IF existing.some /\ existing.rows # <<>>
                            THEN existing.rows \o fetched ELSE fetched
            IN  /\ file' = [exists |-> TRUE, rows |-> remove_duplicates(combined)]
                /\ wrote' = TRUE
                /\ result' = "updated"
       ELSE /\ result' = IF existing.some /\ file.exists THEN "unchanged" ELSE "skipped"
            /\ UNCHANGED <<file, wrote>>
    /\ pc' = "done"
    /\ UNCHANGED <<reconVars, batchVars, variant, now, first_year, last_year, remote, existing, months, mi,
                   inner, all_new, requests, last, faults, failed, runs>>

----------------------------------------------------------------------------
(* Station Updater, file-scan updater: update_csv_file *)

RECURSIVE WhileMonths(_, _)
\* while fetch_year < current_year or (same year and fetch_month <= current_month)
WhileMonths(fetch_year, fetch_month) ==
    IF fetch_year < now[1] \/ (fetch_year = now[1] /\ fetch_month <= now[2])
    THEN << <<fetch_year, fetch_month>> >>
         \o (IF fetch_month + 1 > 12 THEN WhileMonths(fetch_year + 1, 1)
             ELSE WhileMonths(fetch_year, fetch_month + 1))
    ELSE <<>>

\* variation: the while loop starts at the month after the most recent date's
months_to_fetch_after(most_recent_date) ==
    IF most_recent_date = NaT THEN <<>>
    ELSE IF most_recent_date[1] = now[1] /\ most_recent_date[2] = now[2]
    THEN << <<now[1], now[2]>> >>
    ELSE IF most_recent_date[2] = 12 THEN WhileMonths(most_recent_date[1] + 1, 1)
    ELSE WhileMonths(most_recent_date[1], most_recent_date[2] + 1)

months_to_fetch(most_recent_date) ==
    IF most_recent_date = NaT THEN <<>>
    ELSE IF most_recent_date[1] = now[1] /\ most_recent_date[2] = now[2]
    THEN << <<now[1], now[2]>> >>
    ELSE WhileMonths(most_recent_date[1], most_recent_date[2])

\* most_recent_date >= one_day_ago
UpToDate(most_recent_date) == DateLE(PrevDay(now), most_recent_date)

StartB ==
    /\ pc = "idle"
    /\ variant = "B"
    /\ file.exists
    /\ runs' = runs + 1
    /\ IF file.rows = <<>>
       THEN /\ pc' = "done"
            /\ result' = "skipped"
            /\ UNCHANGED <<existing, months>>
       ELSE /\ existing' = [some |-> TRUE, rows |-> file.rows]
            /\ IF UpToDate(MaxDate(file.rows))
               THEN /\ pc' = "done"
                    /\ result' = "unchanged"
                    /\ UNCHANGED months
               ELSE /\ pc' = "fetch"
                    /\ months' = months_to_fetch(MaxDate(file.rows))
                    /\ UNCHANGED result
    /\ mi' = 1
    /\ inner' = 1
    /\ UNCHANGED <<reconVars, batchVars, variant, now, file, first_year, last_year, remote, all_new,
                   requests, last, faults, failed, wrote>>

\* one pass of fetch_daily_data's loop inside the call for months[mi]
FetchB ==
    /\ pc = "fetch"
    /\ variant = "B"
    /\ mi <= Len(months)
    /\ \E resp \in {Serve(months[mi][1], inner)}
                   \cup {Failure(k) : k \in IF faults < MaxFaults THEN {"neterr", "http"} ELSE {}} :
          LET got == fetch_daily_data(months[mi][1], inner, resp)
          IN  /\ requests' = Append(requests, <<months[mi][1], inner>>)
              /\ all_new' = all_new \o got.rows
              \* the except branch prints year and the loop's month; nothing else prints
              /\ last' = [req |-> <<months[mi][1], inner>>, call |-> months[mi],
                          kind |-> resp.kind, printed |-> got.printed,
                          named |-> (IF got.printed = "Error" THEN <<months[mi][1], inner>>
                                     ELSE <<0, 0>>),
                          rows |-> got.rows]
              /\ faults' = IF resp.kind \in {"neterr", "http"} THEN faults + 1 ELSE faults
              /\ failed' = IF resp.kind \in {"neterr", "http"}
                           THEN Append(failed, <<months[mi][1], inner>>) ELSE failed
    /\ IF LoopEnds(months[mi][1], inner + 1)
       THEN mi' = mi + 1 /\ inner' = 1
       ELSE mi' = mi /\ inner' = inner + 1
    /\ UNCHANGED <<reconVars, batchVars, variant, now, file, first_year, last_year, remote, pc, existing, months,
                   result, wrote, runs>>

\* new_df after dropna(how='all'), the ~isin(existing_dates) filter and strftime
surviving_new(all_new_records, existing_df) ==
    LET existing_dates == {to_datetime(r.date) : r \in Range(existing_df)}
    IN  format_dates(SelectSeq(dropna_all(all_new_records),
                        LAMBDA r : to_datetime(r.date) \notin existing_dates))

PersistB ==
    /\ pc = "fetch"
    /\ variant = "B"
    /\ mi > Len(months)
    /\ LET new_df == surviving_new(all_new, existing.rows)
       IN  IF all_new # <<>> /\ new_df # <<>>
           THEN /\ \E clean \in remove_duplicate_dates(existing.rows \o new_df) :
                      file' = [exists |-> TRUE, rows |-> clean]
                /\ wrote' = TRUE
                /\ result' = "updated"
           ELSE /\ result' = "unchanged"
                /\ UNCHANGED <<file, wrote>>
    /\ pc' = "done"
    /\ UNCHANGED <<reconVars, batchVars, variant, now, first_year, last_year, remote, existing, months, mi,
                   inner, all_new, requests, last, faults, failed, runs>>

----------------------------------------------------------------------------
(* Station updates in a row: the inputs of the first one, and the next run  *)

Absent == [exists |-> FALSE, rows |-> <<>>]

NoExisting == [some |-> FALSE, rows |-> <<>>]

\* the days the script is run on
TodaySet == {<<BaseYear + 1, 1, 2>>, <<BaseYear + 1, 2, 1>>}

\* the days a persisted file can hold at the start
FileDays == {<<BaseYear, 12, 31>>, <<BaseYear + 1, 1, 1>>, <<BaseYear + 1, 2, 1>>}

\* A persisted file was written by to_csv after a reconcile: YYYY-MM-DD dates,
\* ascending, one row per date, no row without any measurement.
FileRows ==
    {Row(DateText(d, "iso"), v) : d \in FileDays,
        v \in {w \in [WEATHER_COLUMNS -> CellValues] : \E c \in WEATHER_COLUMNS : w[c] # "NaN"}}

PersistedFiles ==
    {[exists |-> TRUE, rows |-> rs] :
        rs \in {t \in SeqsUpTo(FileRows, MaxFileRows) :
                   \A i \in 1..Len(t) : \A j \in 1..Len(t) :
                       i < j => DateLT(t[i].date.day, t[j].date.day)}}

\* coverage ranges of the inventory rows
Inventory == {<<BaseYear, BaseYear + 1>>, <<BaseYear + 1, BaseYear + 1>>,
              <<BaseYear + 1, BaseYear>>}

AllCells == [WEATHER_COLUMNS -> CellValues]

FullCells == [c \in WEATHER_COLUMNS |-> "v"]

\* rows the remote can serve: for the first day of the month any readings, for
\* the following month's first day any readings, or a row with no date
ServedCells ==
    {[pos |-> p, vals |-> v] : p \in {"first", "next"}, v \in AllCells}
    \cup {[pos |-> "blank", vals |-> FullCells]}

PosRank(p) == IF p = "first" THEN 1 ELSE IF p = "next" THEN 2 ELSE 3

\* a served table holds each of its days once, in ascending order
Remotes ==
    {[kind |-> k, fmt |-> "iso", cells |-> <<>>] : k \in {"empty", "nodate"}}
    \cup {[kind |-> "table", fmt |-> f, cells |-> cs] :
             f \in {"iso", "long"},
             cs \in {t \in SeqsUpTo(ServedCells, MaxServed) :
                        \A i \in 1..Len(t) : \A j \in 1..Len(t) :
                            i < j => PosRank(t[i].pos) < PosRank(t[j].pos)}}

UpdLocals ==
    /\ existing = NoExisting
    /\ months = <<>>
    /\ mi = 1
    /\ inner = 1
    /\ all_new = <<>>
    /\ requests = <<>>
    /\ last = NoLast
    /\ failed = <<>>
    /\ result = "none"
    /\ wrote = FALSE
    /\ runs = 0

UpdInit ==
    /\ variant \in {"A", "B"}
    /\ now \in TodaySet
    /\ file \in (IF variant = "A" THEN {Absent} ELSE {}) \cup PersistedFiles
    /\ \E inv \in (IF variant = "A" THEN Inventory ELSE {<<BaseYear, BaseYear + 1>>}) :
           first_year = inv[1] /\ last_year = inv[2]
    /\ remote \in Remotes
    /\ faults = 0
    /\ pc = "idle"
    /\ UpdLocals

\* the script is started again, the same day or later
NextRun ==
    /\ pc = "done"
    /\ runs < MaxRuns
    /\ now' \in {t \in TodaySet : DateLE(now, t)}
    /\ pc' = "idle"
    /\ existing' = NoExisting
    /\ months' = <<>>
    /\ mi' = 1
    /\ inner' = 1
    /\ all_new' = <<>>
    /\ requests' = <<>>
    /\ last' = NoLast
    /\ failed' = <<>>
    /\ result' = "none"
    /\ wrote' = FALSE
    /\ UNCHANGED <<reconVars, batchVars, variant, file, first_year, last_year, remote, faults, runs>>

\* the variables of a station update while no station update is modelled
UpdIdle ==
    /\ now = <<BaseYear + 1, 1, 2>>
    /\ file = Absent
    /\ first_year = BaseYear
    /\ last_year = BaseYear + 1
    /\ remote = [kind |-> "empty", fmt |-> "iso", cells |-> <<>>]
    /\ faults = 0
    /\ pc = "off"
    /\ UpdLocals

UpdOff == variant = "A" /\ UpdIdle

\* the variables of a reconciler run while no reconciler run is modelled
ReconOff ==
    /\ df_in = <<>>
    /\ df_out = <<>>
    /\ df_out2 = <<>>
    /\ rfn = "none"
    /\ rpc = "off"

\* the variables of a batch while no batch is modelled
BatchOff ==
    /\ stations = <<>>
    /\ bi = 0
    /\ tasks = <<>>
    /\ visited = {}
    /\ reported = {}
    /\ crashed = FALSE

Init == UpdInit /\ ReconOff /\ BatchOff

Next ==
    \/ StartA
    \/ FetchA
    \/ PersistA
    \/ StartB
    \/ FetchB
    \/ PersistB
    \/ NextRun

Spec == Init /\ [][Next]_vars

----------------------------------------------------------------------------
(* The fetch range over a wide calendar: one update per input, the remote   *)
(* serving one full row per month and no request failing                    *)

RangeMonths == {1, 2, 6, 12}

\* the first, second and last day of each of those months, over two years
RangeDays ==
    {t \in {BaseYear, BaseYear + 1} \X RangeMonths \X (1..31) :
        t[3] \in {1, 2, DaysInMonth(t[1], t[2])}}

RangeFiles == {[exists |-> TRUE, rows |-> <<Row(DateText(d, "iso"), FullCells)>>] : d \in RangeDays}

RangeInventory == Inventory \cup {<<BaseYear, BaseYear>>, <<BaseYear, BaseYear + 2>>}

RangeInit ==
    /\ variant \in {"A", "B"}
    /\ now \in RangeDays
    /\ file \in (IF variant = "A" THEN {Absent} ELSE {}) \cup RangeFiles
    /\ \E inv \in (IF variant = "A" THEN RangeInventory ELSE {<<BaseYear, BaseYear + 1>>}) :
           first_year = inv[1] /\ last_year = inv[2]
    /\ remote = [kind |-> "table", fmt |-> "iso",
                 cells |-> <<[pos |-> "first", vals |-> FullCells]>>]
    /\ faults = MaxFaults
    /\ pc = "idle"
    /\ UpdLocals
    /\ ReconOff
    /\ BatchOff

RangeNext == StartA \/ FetchA \/ PersistA \/ StartB \/ FetchB \/ PersistB

SpecRange == RangeInit /\ [][RangeNext]_vars

----------------------------------------------------------------------------
(* Reconciler runs: every working set of at most MaxRows rows *)

ReconDays == {<<BaseYear, 1, 1>>, <<BaseYear, 1, 2>>}

\* Rows reach a reconciler from a persisted file (written by to_csv as
\* YYYY-MM-DD, or with an empty date cell) or from a fetcher (strftime).
ReconRows ==
    {Row(t, v) : t \in {DateText(d, "iso") : d \in ReconDays} \cup {NaNText},
                 v \in [WEATHER_COLUMNS -> CellValues]}

ReconInit ==
    /\ df_in \in SeqsUpTo(ReconRows, MaxRows)
    /\ df_out = <<>>
    /\ df_out2 = <<>>
    /\ rfn = "none"
    /\ rpc = "in"
    /\ UpdOff
    /\ BatchOff

RunRemoveDuplicates ==
    /\ rpc = "in"
    /\ df_out' = remove_duplicates(df_in)
    /\ rfn' = "A"
    /\ rpc' = "once"
    /\ UNCHANGED <<df_in, df_out2, updVars, batchVars>>

RunRemoveDuplicateDates ==
    /\ rpc = "in"
    /\ df_out' \in remove_duplicate_dates(df_in)
    /\ rfn' = "B"
    /\ rpc' = "once"
    /\ UNCHANGED <<df_in, df_out2, updVars, batchVars>>

RunSingleFile ==
    /\ rpc = "in"
    /\ df_out' \in remove_duplicate_dates_single_file(df_in)
    /\ rfn' = "S"
    /\ rpc' = "once"
    /\ UNCHANGED <<df_in, df_out2, updVars, batchVars>>

\* reconcile(reconcile(existing, new), []): the same function over its own output
RunAgain ==
    /\ rpc = "once"
    /\ \/ rfn = "A" /\ df_out2' = remove_duplicates(df_out)
       \/ rfn = "B" /\ df_out2' \in remove_duplicate_dates(df_out)
       \/ rfn = "S" /\ df_out2' \in remove_duplicate_dates_single_file(df_out)
    /\ rpc' = "twice"
    /\ UNCHANGED <<df_in, df_out, rfn, updVars, batchVars>>

ReconNext == RunRemoveDuplicates \/ RunRemoveDuplicateDates \/ RunSingleFile \/ RunAgain

SpecRecon == ReconInit /\ [][ReconNext]_vars

\* reconciler runs over every working set, and station updates in a row
SpecDedup == (Init \/ ReconInit) /\ [][Next \/ ReconNext]_vars

----------------------------------------------------------------------------
(***************************************************************************)
(* Batch Driver.  A station of the working set is described by what goes   *)
(* wrong while it is updated:                                              *)
(*   "none"       nothing                                                  *)
(*   "inventory"  its coverage years in the inventory are not numbers      *)
(*   "file"       its persisted file cannot be read                        *)
(*   "fetch"      a request for one of its months fails                    *)
(*   "merge"      the fetched table lacks a measurement column             *)
(* The file-scan updater has no inventory, so no station of its working    *)
(* set has the first hazard.                                               *)
(***************************************************************************)
Hazards == {"none", "inventory", "file", "fetch", "merge"}

\* worker threads of the file-scan updater's pool
max_workers == 8

\* one pass of the inventory updater's for loop: int() of the coverage years
\* and dropna over the measurement columns are outside every try block, the
\* read of the persisted file and each fetch are inside one
station_body(hazard) ==
    [raised   |-> hazard \in {"inventory", "merge"},
     started  |-> hazard # "inventory",
     reported |-> hazard \in {"file", "fetch"}]

\* the file-scan updater's update of one file: the whole body is one try block
\* whose handler prints the error, and fetch_daily_data prints its own
update_csv_file(hazard) ==
    [raised   |-> FALSE,
     started  |-> TRUE,
     reported |-> hazard # "none"]

\* the inventory updater's loop takes the next inventory row; an exception that
\* leaves the loop body leaves main
LoopStation ==
    /\ variant = "A"
    /\ ~crashed
    /\ bi < Len(stations)
    /\ LET out == station_body(stations[bi + 1])
       IN  /\ bi' = bi + 1
           /\ visited' = IF out.started THEN visited \cup {bi + 1} ELSE visited
           /\ reported' = IF out.reported THEN reported \cup {bi + 1} ELSE reported
           /\ crashed' = out.raised
    /\ UNCHANGED <<reconVars, updVars, stations, tasks>>

\* the paths the glob loop over valid_provinces collects: one per station file
glob_files == 1..Len(stations)

RECURSIVE list_set(_)
\* list(set(all_csv_files)): every path once, in an order the set decides
list_set(S) ==
    IF S = {} THEN {<<>>}
    ELSE UNION {{<<x>> \o rest : rest \in list_set(S \ {x})} : x \in S}

\* variation: every submitted task is handed the first path of the list
task_file_first(all_csv_files, i) == all_csv_files[1]

\* executor.submit(update_csv_file, file_path) in the i-th turn of the loop
task_file(all_csv_files, i) == all_csv_files[i]

\* the file-scan updater queues one task for every file found
SubmitAll ==
    /\ variant = "B"
    /\ tasks = <<>>
    /\ \E all_csv_files \in list_set(glob_files) :
          tasks' = [i \in 1..Len(all_csv_files) |->
                       [st |-> "queued", file |-> task_file(all_csv_files, i)]]
    /\ UNCHANGED <<reconVars, updVars, stations, bi, visited, reported, crashed>>

\* a free worker of the pool starts a queued task: the update opens its file
WorkerStart ==
    /\ variant = "B"
    /\ Cardinality({i \in 1..Len(tasks) : tasks[i].st = "running"}) < max_workers
    /\ \E i \in 1..Len(tasks) :
          /\ tasks[i].st = "queued"
          /\ tasks' = [tasks EXCEPT ![i].st = "running"]
          /\ visited' = IF update_csv_file(stations[tasks[i].file]).started
                        THEN visited \cup {tasks[i].file} ELSE visited
    /\ UNCHANGED <<reconVars, updVars, stations, bi, reported, crashed>>

\* a running task ends: its file is written or left alone
WorkerEnd ==
    /\ variant = "B"
    /\ \E i \in 1..Len(tasks) :
          /\ tasks[i].st = "running"
          /\ tasks' = [tasks EXCEPT ![i].st =
                          IF update_csv_file(stations[tasks[i].file]).raised
                          THEN "raised" ELSE "returned"]
          /\ reported' = IF update_csv_file(stations[tasks[i].file]).reported
                         THEN reported \cup {tasks[i].file} ELSE reported
    /\ UNCHANGED <<reconVars, updVars, stations, bi, visited, crashed>>

\* main takes the result of an ended task; the result of a task that raised
\* raises in main
TakeResult ==
    /\ variant = "B"
    /\ ~crashed
    /\ \E i \in 1..Len(tasks) :
          /\ tasks[i].st \in {"raised", "returned"}
          /\ crashed' = (tasks[i].st = "raised")
          /\ tasks' = [tasks EXCEPT ![i].st = "taken"]
    /\ UNCHANGED <<reconVars, updVars, stations, bi, visited, reported>>

\* the batch is over: the loop ran out of rows or was left, every result taken
BatchOver ==
    \/ crashed
    \/ variant = "A" /\ bi = Len(stations)
    \/ variant = "B" /\ tasks # <<>> /\ \A i \in 1..Len(tasks) : tasks[i].st = "taken"

BatchInit ==
    /\ ReconOff
    /\ UpdIdle
    /\ variant \in {"A", "B"}
    /\ stations \in {st \in SeqsUpTo(Hazards, MaxStations) :
                        /\ st # <<>>
                        /\ variant = "B" => "inventory" \notin Range(st)}
    /\ bi = 0
    /\ tasks = <<>>
    /\ visited = {}
    /\ reported = {}
    /\ crashed = FALSE

BatchNext == LoopStation \/ SubmitAll \/ WorkerStart \/ WorkerEnd \/ TakeResult

SpecBatch == BatchInit /\ [][BatchNext]_vars

----------------------------------------------------------------------------
(* Properties *)

\* the calendar dates a table holds
RealDates(df) == {to_datetime(r.date) : r \in Range(df)} \ {NaT}

\* how many rows of df are about the calendar date d
CountOn(df, d) == Cardinality({i \in 1..Len(df) : to_datetime(df[i].date) = d})

\* C1: a reconciler's output holds exactly one record for each calendar date of
\* its input and no other date, and a persisted dataset that started absent or
\* duplicate-free holds each calendar date at most once after any updates.
C1_OneRecordPerDate ==
    /\ rpc \in {"once", "twice"} =>
          /\ \A d \in RealDates(df_in) : CountOn(df_out, d) = 1
          /\ RealDates(df_out) \subseteq RealDates(df_in)
    /\ file.exists => \A d \in RealDates(file.rows) : CountOn(file.rows, d) = 1

\* a second update has rewritten the file from rows fetched more than once
C1_Witness ==
    /\ pc = "done" /\ wrote /\ runs = 2
    /\ Len(file.rows) >= 2
    /\ \E i \in 1..Len(all_new) : \E j \in 1..Len(all_new) :
          i < j /\ all_new[i].date = all_new[j].date

ScoresOn(df, d) == {non_null_score(r) : r \in {q \in Range(df) : to_datetime(q.date) = d}}

\* C2: when two records of the working set share a calendar date and one has
\* strictly more non-missing measurements, the output's record for that date is
\* a record of the working set with the highest score of that date, and is not
\* the poorer record.
C2_DedupKeepsRichest ==
    rpc \in {"once", "twice"} =>
        \A i \in 1..Len(df_in) : \A j \in 1..Len(df_in) :
            LET d == to_datetime(df_in[i].date)
            IN  (/\ d # NaT
                 /\ to_datetime(df_in[j].date) = d
                 /\ non_null_score(df_in[i]) > non_null_score(df_in[j]))
                => /\ \E r \in Range(df_out) : to_datetime(r.date) = d
                   /\ \A r \in Range(df_out) :
                         to_datetime(r.date) = d =>
                            /\ \A n \in ScoresOn(df_in, d) : n <= non_null_score(r)
                            /\ r.vals # df_in[j].vals
                            /\ \E q \in Range(df_in) :
                                  to_datetime(q.date) = d /\ q.vals = r.vals

\* three records of one date with three different scores went through
C2_Witness ==
    /\ rpc = "once"
    /\ Len(df_in) = 3
    /\ \A i \in 1..3 : df_in[i].date = df_in[1].date /\ df_in[1].date.fmt = "iso"
    /\ non_null_score(df_in[1]) < non_null_score(df_in[2])
    /\ non_null_score(df_in[3]) < non_null_score(df_in[1])

\* C10: a second pass of the reconciler over its own output (and no new rows)
\* returns that output: the same rows, in the same order, with the same date text.
C10_Idempotent == rpc = "twice" => df_out2 = df_out

\* the first pass dropped a duplicate and left two dates
C10_Witness ==
    /\ rpc = "twice"
    /\ Len(df_out) = 2
    /\ Len(df_in) > Len(df_out)

\* the update read a dataset whose latest date is today or yesterday
FreshAtStart ==
    /\ pc \in {"fetch", "done"}
    /\ existing.some
    /\ MaxDate(existing.rows) \in {now, PrevDay(now)}

\* C3: when the persisted dataset's latest date is today or yesterday, the
\* update sends no request, does not rewrite the file and reports unchanged.
C3_FreshnessShortCircuit ==
    FreshAtStart =>
        /\ requests = <<>>
        /\ ~wrote
        /\ (pc = "done" => result = "unchanged")

\* months counted from year 0
MonthIndex(y, m) == 12 * y + m - 1

\* the calendar months numbered a .. b, in order
MonthSpan(a, b) ==
    IF b < a THEN <<>>
    ELSE [i \in 1..(b - a + 1) |-> <<(a + i - 1) \div 12, ((a + i - 1) % 12) + 1>>]

\* the update read a dataset whose latest date is before yesterday
StaleAtStart ==
    /\ pc \in {"fetch", "done"}
    /\ existing.some
    /\ DateLT(MaxDate(existing.rows), PrevDay(now))

\* C4 as claimed: for a dataset whose latest date is before yesterday, the
\* months decided on are exactly the months from the one holding the latest
\* date through the current month.
C4_RangeFromLatestMonth ==
    StaleAtStart =>
        LET latest == MaxDate(existing.rows)
        IN  months = MonthSpan(MonthIndex(latest[1], latest[2]), MonthIndex(now[1], now[2]))

\* C4 as amended: the months decided on are a run of consecutive months ending
\* at the current month.  update_csv_file starts it at the month holding the
\* latest date; main starts it at the month holding the day after the latest
\* date and ends it at December of last_year when last_year is before the
\* current year.
C4_RangeAmended ==
    StaleAtStart =>
        LET latest == MaxDate(existing.rows)
            after == NextDay(latest)
        IN  months =
              IF variant = "B"
              THEN MonthSpan(MonthIndex(latest[1], latest[2]), MonthIndex(now[1], now[2]))
              ELSE MonthSpan(MonthIndex(after[1], after[2]),
                             Min(MonthIndex(now[1], now[2]), MonthIndex(last_year, 12)))

\* main has finished an update over the year boundary that began from a latest
\* date on the last day of June
C4_Witness ==
    /\ StaleAtStart
    /\ Len(months) >= 7
    /\ months[1][1] = BaseYear
    /\ months[Len(months)][1] = BaseYear + 1
    /\ variant = "A"
    /\ MaxDate(existing.rows)[2] = 6
    /\ MaxDate(existing.rows)[3] = DaysInMonth(BaseYear, 6)
    /\ pc = "done"

\* C5: every call of the Month Fetcher sends one request, for the year and
\* month it was called with, and returns rows of that month only; so the
\* requests of one update are the months decided on, each once.
C5_OneRequestPerMonth ==
    /\ last.kind # "none" =>
          /\ last.req = last.call
          /\ \A r \in Range(last.rows) :
                to_datetime(r.date)[1] = last.call[1] /\ to_datetime(r.date)[2] = last.call[2]
    /\ pc = "done" => requests = months

\* C6: with no persisted dataset, main requests every month from January of
\* first_year through the current month, or through December of last_year when
\* that is earlier, each once and in order, and nothing after them.
C6_InitialRange ==
    (variant = "A" /\ pc \in {"fetch", "done"} /\ ~existing.some /\ first_year <= last_year) =>
        LET expected == MonthSpan(MonthIndex(first_year, 1),
                                  Min(MonthIndex(now[1], now[2]), MonthIndex(last_year, 12)))
        IN  /\ months = expected
            /\ requests = SubSeq(expected, 1, mi - 1)
            /\ pc = "done" => requests = expected
            /\ \A r \in Range(requests) :
                  /\ r[1] <= Min(last_year, now[1])
                  /\ MonthIndex(r[1], r[2]) <= MonthIndex(now[1], now[2])

\* a first fetch that began in an earlier year has ended in the current month
C6_Witness ==
    /\ variant = "A" /\ pc = "done" /\ ~existing.some
    /\ first_year = BaseYear /\ now[1] = BaseYear + 1 /\ now[2] < 12
    /\ Len(requests) = 12 + now[2]
    /\ wrote

\* C7: a month whose fetch fails by network or HTTP error is reported by name,
\* every month decided on is still requested, and every fetched record that
\* has a measurement is in the persisted dataset at the end.
C7_PartialFailureIsolation ==
    /\ last.kind \in {"neterr", "http"} =>
          last.printed \in {"FAIL", "Error"} /\ last.named = last.req
    /\ (pc = "done" /\ failed # <<>>) =>
          /\ Range(months) \subseteq Range(requests)
          /\ \A r \in Range(all_new) :
                non_null_score(r) > 0 => to_datetime(r.date) \in RealDates(file.rows)

\* C8: in a batch, an exception raised while one station is updated is
\* reported for that station and the update is still applied to every other
\* station of the working set; the batch is never left early.
C8_PerStationIsolation ==
    /\ ~crashed
    /\ BatchOver =>
          /\ \A i \in 1..Len(stations) : stations[i] = "none" => i \in visited
          /\ \A i \in 1..Len(stations) : stations[i] # "none" => i \in reported

\* C9: an empty response body, or a table without a date column, gives no rows
\* and is not reported as a failure.
C9_EmptyIsNotAnError ==
    last.kind \in {"empty", "nodate"} =>
        /\ last.rows = <<>>
        /\ last.printed \in {"NoData", "none"}

\* the rows of the dataset the update read at its start (none for an absent or
\* empty file)
RowsAtStart == IF existing.some THEN existing.rows ELSE <<>>

\* C11: an update that rewrites the file or reports the station as updated ends
\* with a dataset that differs from the one it read; when the reconciled rows
\* equal the rows read, the file is not written and the result is unchanged.
C11_PersistOnlyOnChange ==
    pc = "done" =>
        /\ (wrote \/ result = "updated") => file.rows # RowsAtStart
        /\ (file.rows = RowsAtStart /\ existing.some) => (~wrote /\ result = "unchanged")

\* the fetched rows an update hands to its reconciler next to the existing rows
Incoming ==
    IF variant = "A" THEN dropna_all(all_new) ELSE surviving_new(all_new, existing.rows)

\* C12: in an update of an existing dataset the fetched rows handed to the
\* reconciler have no date the existing rows have, and a date with a single
\* existing record keeps that record.
C12_OverlapDroppedBeforeReconcile ==
    (pc = "done" /\ existing.some) =>
        /\ RealDates(Incoming) \cap RealDates(existing.rows) = {}
        /\ \A r \in Range(existing.rows) :
              CountOn(existing.rows, to_datetime(r.date)) = 1 => r \in Range(file.rows)

\* C13: a reconciler's output holds no record whose measurement cells are all
\* missing and no record whose date is missing.
C13_NoObservationRowsDropped ==
    rpc \in {"once", "twice"} =>
        \A r \in Range(df_out) : non_null_score(r) > 0 /\ to_datetime(r.date) # NaT

\* the tasks of the pool that have file f as their argument
TasksOn(f) == {i \in 1..Len(tasks) : tasks[i].file = f}

\* C14: in a batch over the worker pool every file found is the argument of
\* exactly one task, no two running tasks have the same file, and when the
\* batch is over exactly one update has been applied to each file.
C14_DisjointFiles ==
    (variant = "B" /\ tasks # <<>>) =>
        /\ \A f \in glob_files : Cardinality(TasksOn(f)) = 1
        /\ \A i \in 1..Len(tasks) : \A j \in 1..Len(tasks) :
              (i # j /\ tasks[i].st = "running" /\ tasks[j].st = "running")
                  => tasks[i].file # tasks[j].file
        /\ BatchOver =>
              \A f \in glob_files :
                  Cardinality({i \in TasksOn(f) : tasks[i].st = "taken"}) = 1

\* two updates are running at the same time
C14_Witness ==
    /\ variant = "B"
    /\ \E i \in 1..Len(tasks) : \E j \in 1..Len(tasks) :
          i # j /\ tasks[i].st = "running" /\ tasks[j].st = "running"

\* the calendar dates for which a table holds a record with a measurement
ObservedDates(df) ==
    {to_datetime(r.date) : r \in {q \in Range(df) : non_null_score(q) > 0}} \ {NaT}

\* C15: no step deletes or empties a persisted dataset, every date that has a
\* record keeps one, and the dates that have a record with a measurement only
\* grow.
C15_AppendOnly ==
    [][file.exists =>
          /\ file'.exists
          /\ file.rows # <<>> => file'.rows # <<>>
          /\ RealDates(file.rows) \subseteq RealDates(file'.rows)
          /\ ObservedDates(file.rows) \subseteq ObservedDates(file'.rows)]_vars

\* a second update, after a failed fetch, has merged fetched rows into a
\* dataset that already held a record for one of their dates
C15_Witness ==
    /\ pc = "done" /\ wrote /\ runs = 2 /\ faults > 0
    /\ existing.some
    /\ RealDates(Incoming) \cap RealDates(existing.rows) # {}
    /\ Len(file.rows) > Len(existing.rows)

====
